---- MODULE Spec2Model ----
(***************************************************************************)
(* Conflict detection and rescheduling engine of push_schedule.py:         *)
(* detect_conflicts, calculate_rescheduled_time and handle_conflicts, as   *)
(* run by main() in sync mode with --auto-reschedule.                      *)
(*                                                                         *)
(* Time is an integer: minutes since local midnight of the target date in  *)
(* the configured timezone.  A calendar dateTime string is a pair          *)
(* (wall clock minutes, UTC offset of the string); parse_datetime converts *)
(* it to the configured timezone, iso renders a local time back.           *)
(* A title is a sequence of tokens; the completion marker is one token.    *)
(***************************************************************************)
EXTENDS Integers, Sequences, FiniteSets, TLC

\* ------------------------------------------------------------------ bounds
MaxEvents == 3        \* length of the calendar snapshot
MaxBlocks == 2        \* length of the schedule
MaxMinute == 4        \* latest interval endpoint handed to events_overlap
MaxTuples == 2        \* length of the schedule handed to validate_schedule
MaxCalendar == 4      \* events the calendar holds at most (pushes stop there)
MaxRequests == 2      \* POST requests the webhook handler serves

\* ------------------------------------------------------- program constants
MinutesPerDay == 1440
TzOffset      == 120  \* "Europe/Tirane" on the target date (UTC+02:00)
TargetDate    == 0    \* today = datetime(2025, 7, 7): day 0 of the model
MinOverlap    == 1    \* min_minutes=1 at the call sites

Marker == "[done] "   \* stands for the completion marker prefix

HM(h, m) == h * 60 + m

\* datetime(y, m, d, hh, mm, tzinfo=tz.gettz(timezone_str))
LocalDateTime(day, hh, mm) == day * MinutesPerDay + HM(hh, mm)

\* dt.date() and dt.time() of a local datetime
DateOf(t) == t \div MinutesPerDay
TimeOf(t) == t % MinutesPerDay

\* ---------------------------------------------------------------- helpers
iso(t) == [wall |-> t, off |-> TzOffset]

parse_datetime(s) == s.wall - s.off + TzOffset

\* str.replace(marker, ""): every occurrence of the marker is removed
StripMarker(title) == SelectSeq(title, LAMBDA tok : tok # Marker)

\* mutant of events_overlap: the first start is taken for the latest one
events_overlap_first_start(start1, end1, start2, end2, min_minutes) ==
    LET earliest_end == IF end1 <= end2 THEN end1 ELSE end2
    IN  earliest_end - start1 >= min_minutes

events_overlap(start1, end1, start2, end2, min_minutes) ==
    LET latest_start == IF start1 >= start2 THEN start1 ELSE start2
        earliest_end == IF end1 <= end2 THEN end1 ELSE end2
        overlap      == earliest_end - latest_start
    IN  overlap >= min_minutes

SeqMax(s) == CHOOSE x \in {s[i] : i \in DOMAIN s} :
                 \A y \in {s[i] : i \in DOMAIN s} : y <= x
SeqMin(s) == CHOOSE x \in {s[i] : i \in DOMAIN s} :
                 \A y \in {s[i] : i \in DOMAIN s} : x <= y

\* ----------------------------------------------------------------- inputs
Timed(id, title, s, e) ==
    [id |-> id, summary |-> title, timed |-> TRUE, start |-> s, end |-> e]
AllDay(id, title) ==
    [id |-> id, summary |-> title, timed |-> FALSE,
     start |-> [wall |-> 0, off |-> TzOffset],
     end   |-> [wall |-> MinutesPerDay, off |-> TzOffset]]

\* Calendar entries the snapshot of the target date is drawn from.
CalendarPool ==
    { Timed(1, <<"Dentist">>,  iso(HM(10, 0)),  iso(HM(10, 30))),
      Timed(2, <<"Call">>,     iso(HM(10, 45)), iso(HM(11, 15))),
      Timed(3, <<"Lunch">>,    iso(HM(12, 0)),  iso(HM(12, 15))),
      Timed(4, <<"Meeting">>,  iso(HM(13, 0)),  iso(HM(14, 30))),
      \* the pushed instance of Deep Work 09:00-11:00, marked done, in UTC
      Timed(5, <<Marker, "Deep Work">>,
               [wall |-> HM(7, 0), off |-> 0], [wall |-> HM(9, 0), off |-> 0]),
      \* an instance of Deep Work that sits at other times
      Timed(6, <<"Deep Work">>, iso(HM(13, 0)), iso(HM(15, 0))),
      AllDay(7, <<"Holiday">>),
      Timed(8, <<"Party">>,    iso(HM(22, 0)),  iso(HM(23, 30))),
      Timed(9, <<"Errand">>,   iso(HM(11, 30)), iso(HM(17, 15))),
      Timed(10, <<"Pickup">>,  iso(HM(13, 30)), iso(HM(14, 0))) }

Block(title, day, sh, sm, eh, em) ==
    [title |-> title, day |-> day, sh |-> sh, sm |-> sm, eh |-> eh, em |-> em]

\* Schedule tuples (all pass validate_schedule).
BlockPool ==
    { Block(<<"Deep Work">>, 0, 9, 0, 11, 0),
      Block(<<"Deep Work">>, 0, 14, 0, 16, 0),
      Block(<<"Gym">>,       0, 11, 0, 12, 0),
      Block(<<"Reading">>,   0, 22, 0, 23, 0),
      Block(<<"Deep Work">>, 1, 9, 0, 11, 0) }

BufferChoices == {0, 15, 30}
MaxEndChoices == {HM(13, 0), HM(23, 59)}

Injective(s) == \A i, j \in DOMAIN s : i # j => s[i] # s[j]

\* events().list(orderBy="startTime"): the snapshot is ordered by start
SortKey(e) == IF e.timed THEN parse_datetime(e.start) ELSE e.start.wall
Snapshots ==
    UNION { { s \in [1..n -> CalendarPool] :
                /\ Injective(s)
                /\ \A i \in 1..(n - 1) : SortKey(s[i]) <= SortKey(s[i + 1]) }
            : n \in 0..MaxEvents }

Schedules ==
    UNION { { s \in [1..n -> BlockPool] : Injective(s) } : n \in 0..MaxBlocks }

VARIABLES
    all_events,       \* the calendar snapshot (list of entries)
    schedule,         \* the schedule tuples
    buffer,           \* config conflict_resolution.buffer_minutes
    max_end_t,        \* config conflict_resolution.max_end_time, as time of day
    dry_run,
    pc,               \* position of the run
    error,            \* exception that ended the run, "none" otherwise
    conflicts,        \* result of detect_conflicts
    groups,           \* sorted by_title items of handle_conflicts
    gi,               \* index of the group being processed
    scheduled_event,  \* block handed to calculate_rescheduled_time
    real_conflicts,   \* conflicts handed to calculate_rescheduled_time
    start,            \* candidate slot of the search loop
    end,
    accepted,         \* slots already placed in this run
    rescheduled,      \* list returned by handle_conflicts
    service_updates,  \* events().update calls issued, with their outcome
    printed,          \* diagnostics printed per block
    resolver_calls,   \* finished calls of calculate_rescheduled_time
    fn_args,          \* arguments of a function called on its own
    fn_ret            \* what that call returned or raised

vars == <<all_events, schedule, buffer, max_end_t, dry_run, pc, error,
          conflicts, groups, gi, scheduled_event, real_conflicts, start, end,
          accepted, rescheduled, service_updates, printed, resolver_calls,
          fn_args, fn_ret>>

\* a run of main calls no function on its own
NoCall == [done |-> FALSE]

inputs == <<schedule, buffer, max_end_t, dry_run, fn_args, fn_ret>>

NoEvent == [title |-> <<>>, start |-> 0, end |-> 0]

Init ==
    /\ all_events \in Snapshots
    /\ schedule \in Schedules
    /\ buffer \in BufferChoices
    /\ max_end_t \in MaxEndChoices
    /\ dry_run \in BOOLEAN
    /\ pc = "sync"
    /\ error = "none"
    /\ conflicts = <<>>
    /\ groups = <<>>
    /\ gi = 0
    /\ scheduled_event = NoEvent
    /\ real_conflicts = <<>>
    /\ start = 0
    /\ end = 0
    /\ accepted = <<>>
    /\ rescheduled = <<>>
    /\ service_updates = <<>>
    /\ printed = <<>>
    /\ resolver_calls = <<>>
    /\ fn_args = NoCall
    /\ fn_ret = NoCall

\* ------------------------------------------------------- detect_conflicts
BlockStart(b) == LocalDateTime(b.day, b.sh, b.sm)
BlockEnd(b)   == LocalDateTime(b.day, b.eh, b.em)

\* step 1: fingerprints of every scheduled block
schedule_fps(schedule_events) ==
    { <<schedule_events[k].title,
        iso(BlockStart(schedule_events[k])),
        iso(BlockEnd(schedule_events[k]))>> : k \in DOMAIN schedule_events }

\* step 2: that day's schedule as datetime objects
RECURSIVE sched_today(_, _)
sched_today(schedule_events, date) ==
    IF schedule_events = <<>> THEN <<>>
    ELSE LET b    == Head(schedule_events)
             rest == sched_today(Tail(schedule_events), date)
         IN  IF b.day # date THEN rest
             ELSE <<[title |-> b.title, start |-> BlockStart(b),
                     end |-> BlockEnd(b)]>> \o rest

\* mutant of cal_fingerprint: the completion marker is not removed
cal_fingerprint_raw(cal) ==
    <<cal.summary,
      iso(parse_datetime(cal.start)), iso(parse_datetime(cal.end))>>

\* the fingerprint of a calendar entry, compared with schedule_fps
cal_fingerprint(cal) ==
    <<StripMarker(cal.summary),
      iso(parse_datetime(cal.start)), iso(parse_datetime(cal.end))>>

\* mutant of overlaps_block: only the dates are compared
overlaps_block_same_day(cal, sched) ==
    DateOf(parse_datetime(cal.start)) = DateOf(sched.start)

\* the test of a calendar entry against one fixed block
overlaps_block(cal, sched) ==
    events_overlap(parse_datetime(cal.start), parse_datetime(cal.end),
                   sched.start, sched.end, MinOverlap)

\* records of calendar entry number i against each block of the day
RECURSIVE cal_conflicts(_, _, _)
cal_conflicts(i, cal, today) ==
    IF today = <<>> THEN <<>>
    ELSE LET sched == Head(today)
             rest  == cal_conflicts(i, cal, Tail(today))
         IN  IF overlaps_block(cal, sched)
             THEN <<[manual_event    |-> i,
                     scheduled_event |-> sched,
                     manual_start    |-> parse_datetime(cal.start),
                     manual_end      |-> parse_datetime(cal.end)]>> \o rest
             ELSE rest

\* cal["start"]["dateTime"] of an entry without dateTime raises KeyError
detect_raises(calendar_events) ==
    \E i \in DOMAIN calendar_events : ~calendar_events[i].timed

RECURSIVE detect_from(_, _, _, _)
detect_from(i, calendar_events, fps, today) ==
    IF i > Len(calendar_events) THEN <<>>
    ELSE LET cal  == calendar_events[i]
             rest == detect_from(i + 1, calendar_events, fps, today)
         IN  IF cal_fingerprint(cal) \in fps THEN rest
             ELSE cal_conflicts(i, cal, today) \o rest

detect_conflicts(calendar_events, schedule_events, date) ==
    detect_from(1, calendar_events, schedule_fps(schedule_events),
                sched_today(schedule_events, date))

\* ------------------------------------------- calculate_rescheduled_time
\* mutant of latest_end: the first conflict's end instead of the latest
latest_end_first(cs) == cs[1].manual_end

latest_end(cs) == SeqMax([k \in DOMAIN cs |-> cs[k].manual_end])

schedule_titles(schedule_events) ==
    { schedule_events[k].title : k \in DOMAIN schedule_events }

\* fixed_clashes(s, e): (start, end) of calendar items that block the slot
RECURSIVE fixed_clashes_from(_, _, _, _, _)
fixed_clashes_from(i, s, e, events, titles) ==
    IF i > Len(events) THEN <<>>
    ELSE LET ev   == events[i]
             rest == fixed_clashes_from(i + 1, s, e, events, titles)
         IN  IF StripMarker(ev.summary) \in titles THEN rest
             ELSE IF events_overlap(s, e, parse_datetime(ev.start),
                                    parse_datetime(ev.end), MinOverlap)
                  THEN <<<<parse_datetime(ev.start), parse_datetime(ev.end)>>>>
                       \o rest
                  ELSE rest

\* mutant of fixed_clashes: the buffer is taken for the overlap threshold
fixed_clashes_buffer(s, e) ==
    LET hits == SelectSeq(all_events, LAMBDA ev :
                    /\ StripMarker(ev.summary) \notin schedule_titles(schedule)
                    /\ events_overlap(s, e, parse_datetime(ev.start),
                                      parse_datetime(ev.end), buffer))
    IN  [k \in DOMAIN hits |->
            <<parse_datetime(hits[k].start), parse_datetime(hits[k].end)>>]

fixed_clashes(s, e) ==
    fixed_clashes_from(1, s, e, all_events, schedule_titles(schedule))

\* mutant of past_cutoff: the start is compared with the cutoff
past_cutoff_start(s, e, max_t) == TimeOf(s) > max_t

\* midnight / max_end guard
past_cutoff(s, e, max_t) ==
    \/ (DateOf(e) = DateOf(s) /\ TimeOf(e) > max_t)
    \/ (DateOf(e) > DateOf(s) /\ TimeOf(e) > max_t)

\* clash with already-accepted moves?
blocked_clash(s, e, blocked) ==
    \E k \in DOMAIN blocked :
        events_overlap(s, e, blocked[k][1], blocked[k][2], MinOverlap)

\* bump = max(en for st, en in blocked if events_overlap(start, end, st, en))
blocked_bump(s, e, blocked) ==
    SeqMax([k \in DOMAIN SelectSeq(blocked, LAMBDA b :
                events_overlap(s, e, b[1], b[2], 0)) |->
            SelectSeq(blocked, LAMBDA b :
                events_overlap(s, e, b[1], b[2], 0))[k][2]])

\* the ends min() ranges over: en for st, en in blockers if en >= end
fixed_bump_choices(blockers, e) ==
    SelectSeq([k \in DOMAIN blockers |-> blockers[k][2]], LAMBDA en : en >= e)

\* ------------------------------------------------------- handle_conflicts
RECURSIVE first_seen(_)
first_seen(s) ==
    IF s = <<>> THEN <<>>
    ELSE LET f == first_seen(SubSeq(s, 1, Len(s) - 1))
             x == s[Len(s)]
         IN  IF \E k \in DOMAIN f : f[k] = x THEN f ELSE Append(f, x)

\* by_title.setdefault(title, []).append(c): items in insertion order
by_title(cs) ==
    LET ts == first_seen([k \in DOMAIN cs |-> cs[k].scheduled_event.title])
    IN  [k \in DOMAIN ts |->
            [title |-> ts[k],
             ev_conflicts |->
                 SelectSeq(cs, LAMBDA c : c.scheduled_event.title = ts[k])]]

group_key(item) == item.ev_conflicts[1].scheduled_event.start

\* mutant of sorted_items: the items stay in insertion order
sorted_items_unsorted(items) == items

\* sorted(..., key=...) is stable
RECURSIVE sorted_items(_)
sorted_items(items) ==
    IF items = <<>> THEN <<>>
    ELSE LET x    == items[Len(items)]
             done == sorted_items(SubSeq(items, 1, Len(items) - 1))
             n    == Cardinality({k \in DOMAIN done :
                                     group_key(done[k]) <= group_key(x)})
         IN  SubSeq(done, 1, n) \o <<x>> \o SubSeq(done, n + 1, Len(done))

\* ignore "self-conflicts"
real_of(item) ==
    SelectSeq(item.ev_conflicts, LAMBDA c :
        StripMarker(all_events[c.manual_event].summary) # item.title)

\* index of the calendar entry the update loop rewrites, 0 if none
update_target(title, old_start) ==
    LET hits == { i \in DOMAIN all_events :
                    /\ StripMarker(all_events[i].summary) = title
                    /\ all_events[i].timed
                    /\ parse_datetime(all_events[i].start) = old_start }
    IN  IF hits = {} THEN 0
        ELSE CHOOSE i \in hits : \A j \in hits : i <= j

relocation(title, old_start, new_start, new_end) ==
    [title |-> title, old_start |-> old_start,
     new_start |-> new_start, new_end |-> new_end]

\* ---------------------------------------------------------------- actions
search_vars == <<scheduled_event, real_conflicts, start, end>>
detect_vars == <<conflicts, groups>>
output_vars == <<accepted, rescheduled, service_updates, printed,
                 resolver_calls>>

duration == scheduled_event.end - scheduled_event.start

call_record(ok, s, e) ==
    [event |-> scheduled_event, conflicts |-> real_conflicts,
     blocked |-> accepted, ok |-> ok, start |-> s, end |-> e]

line(msg) ==
    [msg |-> msg, title |-> scheduled_event.title,
     old_start |-> scheduled_event.start]

\* main, sync mode: detect_conflicts raises KeyError on an entry without
\* dateTime; nothing in main catches it
DetectRaise ==
    /\ pc = "sync"
    /\ detect_raises(all_events)
    /\ pc' = "crashed"
    /\ error' = "KeyError"
    /\ UNCHANGED <<all_events, inputs, detect_vars, gi, search_vars,
                   output_vars>>

\* mutant of DetectConflicts: the marker is stripped from the entries in place
DetectConflicts_in_place ==
    /\ pc = "sync"
    /\ ~detect_raises(all_events)
    /\ conflicts' = detect_conflicts(all_events, schedule, TargetDate)
    /\ all_events' = [i \in DOMAIN all_events |->
                         [all_events[i] EXCEPT !.summary = StripMarker(@)]]
    /\ pc' = IF conflicts' = <<>> THEN "done" ELSE "handle"
    /\ UNCHANGED <<inputs, error, groups, gi, search_vars, output_vars>>

\* main, sync mode: detect_conflicts returns; no conflicts ends the run
DetectConflicts ==
    /\ pc = "sync"
    /\ ~detect_raises(all_events)
    /\ conflicts' = detect_conflicts(all_events, schedule, TargetDate)
    /\ pc' = IF conflicts' = <<>> THEN "done" ELSE "handle"
    /\ UNCHANGED <<all_events, inputs, error, groups, gi, search_vars,
                   output_vars>>

\* handle_conflicts up to the loop: grouping and sorting
HandleConflicts ==
    /\ pc = "handle"
    /\ groups' = sorted_items(by_title(conflicts))
    /\ gi' = 1
    /\ pc' = "loop"
    /\ UNCHANGED <<all_events, inputs, error, conflicts, search_vars,
                   output_vars>>

\* the for loop is exhausted: return rescheduled
LoopDone ==
    /\ pc = "loop"
    /\ gi > Len(groups)
    /\ pc' = "done"
    /\ UNCHANGED <<all_events, inputs, error, detect_vars, gi, search_vars,
                   output_vars>>

\* if not real_conflicts: continue
GroupSkip ==
    /\ pc = "loop"
    /\ gi <= Len(groups)
    /\ real_of(groups[gi]) = <<>>
    /\ gi' = gi + 1
    /\ UNCHANGED <<all_events, inputs, pc, error, detect_vars, search_vars,
                   output_vars>>

\* call of calculate_rescheduled_time up to the search loop
GroupResolve ==
    /\ pc = "loop"
    /\ gi <= Len(groups)
    /\ real_of(groups[gi]) # <<>>
    /\ real_conflicts' = real_of(groups[gi])
    /\ scheduled_event' = real_conflicts'[1].scheduled_event
    /\ start' = latest_end(real_conflicts') + buffer
    /\ end' = start' + (scheduled_event'.end - scheduled_event'.start)
    /\ pc' = "search"
    /\ UNCHANGED <<all_events, inputs, error, detect_vars, gi, output_vars>>

\* the guard returns None; handle_conflicts prints and continues
SearchReject ==
    /\ pc = "search"
    /\ past_cutoff(start, end, max_end_t)
    /\ resolver_calls' = Append(resolver_calls, call_record(FALSE, 0, 0))
    /\ printed' = Append(printed, line("No free slot"))
    /\ gi' = gi + 1
    /\ pc' = "loop"
    /\ UNCHANGED <<all_events, inputs, error, detect_vars, search_vars,
                   accepted, rescheduled, service_updates>>

\* clash with an accepted move: bump past it and continue
SearchBumpAccepted ==
    /\ pc = "search"
    /\ ~past_cutoff(start, end, max_end_t)
    /\ blocked_clash(start, end, accepted)
    /\ start' = blocked_bump(start, end, accepted) + buffer
    /\ end' = start' + duration
    /\ UNCHANGED <<all_events, inputs, pc, error, detect_vars, gi,
                   scheduled_event, real_conflicts, output_vars>>

\* clash with fixed calendar items: bump to the nearest gap and continue
SearchBumpFixed ==
    /\ pc = "search"
    /\ ~past_cutoff(start, end, max_end_t)
    /\ ~blocked_clash(start, end, accepted)
    /\ fixed_clashes(start, end) # <<>>
    /\ fixed_bump_choices(fixed_clashes(start, end), end) # <<>>
    /\ start' = SeqMin(fixed_bump_choices(fixed_clashes(start, end), end))
                + buffer
    /\ end' = start' + duration
    /\ UNCHANGED <<all_events, inputs, pc, error, detect_vars, gi,
                   scheduled_event, real_conflicts, output_vars>>

\* min() of an empty sequence raises ValueError; nothing catches it
SearchRaise ==
    /\ pc = "search"
    /\ ~past_cutoff(start, end, max_end_t)
    /\ ~blocked_clash(start, end, accepted)
    /\ fixed_clashes(start, end) # <<>>
    /\ fixed_bump_choices(fixed_clashes(start, end), end) = <<>>
    /\ pc' = "crashed"
    /\ error' = "ValueError"
    /\ UNCHANGED <<all_events, inputs, detect_vars, gi, search_vars,
                   output_vars>>

slot_is_clear ==
    /\ pc = "search"
    /\ ~past_cutoff(start, end, max_end_t)
    /\ ~blocked_clash(start, end, accepted)
    /\ fixed_clashes(start, end) = <<>>

\* mutant of AcceptDryRun: the continue is missing and the update loop runs
AcceptDryRun_no_continue ==
    /\ slot_is_clear
    /\ dry_run
    /\ resolver_calls' = Append(resolver_calls, call_record(TRUE, start, end))
    /\ accepted' = Append(accepted, <<start, end>>)
    /\ printed' = Append(printed, line("Moving"))
    /\ rescheduled' = Append(rescheduled,
           relocation(groups[gi].title, scheduled_event.start, start, end))
    /\ pc' = "update"
    /\ UNCHANGED <<all_events, inputs, error, detect_vars, gi, search_vars,
                   service_updates>>

\* slot is clear, dry run: record the move and continue
AcceptDryRun ==
    /\ slot_is_clear
    /\ dry_run
    /\ resolver_calls' = Append(resolver_calls, call_record(TRUE, start, end))
    /\ accepted' = Append(accepted, <<start, end>>)
    /\ printed' = Append(printed, line("Moving"))
    /\ rescheduled' = Append(rescheduled,
           relocation(groups[gi].title, scheduled_event.start, start, end))
    /\ gi' = gi + 1
    /\ pc' = "loop"
    /\ UNCHANGED <<all_events, inputs, error, detect_vars, search_vars,
                   service_updates>>

\* slot is clear, apply mode: go on to the calendar update
AcceptApply ==
    /\ slot_is_clear
    /\ ~dry_run
    /\ resolver_calls' = Append(resolver_calls, call_record(TRUE, start, end))
    /\ accepted' = Append(accepted, <<start, end>>)
    /\ printed' = Append(printed, line("Moving"))
    /\ pc' = "update"
    /\ UNCHANGED <<all_events, inputs, error, detect_vars, gi, search_vars,
                   rescheduled, service_updates>>

\* no calendar entry has the title and the original start
UpdateNoMatch ==
    /\ pc = "update"
    /\ update_target(groups[gi].title, scheduled_event.start) = 0
    /\ gi' = gi + 1
    /\ pc' = "loop"
    /\ UNCHANGED <<all_events, inputs, error, detect_vars, search_vars,
                   output_vars>>

rewritten(i) ==
    [all_events EXCEPT ![i].start = iso(start), ![i].end = iso(end)]

update_call(i, ok) ==
    [eventId |-> all_events[i].id, start |-> iso(start), end |-> iso(end),
     ok |-> ok]

\* the entry is rewritten and the update call succeeds
UpdateOk ==
    /\ pc = "update"
    /\ update_target(groups[gi].title, scheduled_event.start) # 0
    /\ LET i == update_target(groups[gi].title, scheduled_event.start)
       IN  /\ all_events' = rewritten(i)
           /\ service_updates' = Append(service_updates, update_call(i, TRUE))
    /\ rescheduled' = Append(rescheduled,
           relocation(groups[gi].title, scheduled_event.start, start, end))
    /\ printed' = Append(printed, line("Rescheduled successfully"))
    /\ gi' = gi + 1
    /\ pc' = "loop"
    /\ UNCHANGED <<inputs, error, detect_vars, search_vars, accepted,
                   resolver_calls>>

\* the entry is rewritten and the update call raises after its retries
UpdateFail ==
    /\ pc = "update"
    /\ update_target(groups[gi].title, scheduled_event.start) # 0
    /\ LET i == update_target(groups[gi].title, scheduled_event.start)
       IN  /\ all_events' = rewritten(i)
           /\ service_updates' = Append(service_updates, update_call(i, FALSE))
    /\ printed' = Append(printed, line("API error"))
    /\ gi' = gi + 1
    /\ pc' = "loop"
    /\ UNCHANGED <<inputs, error, detect_vars, search_vars, accepted,
                   rescheduled, resolver_calls>>

Next ==
    \/ DetectRaise
    \/ DetectConflicts
    \/ HandleConflicts
    \/ LoopDone
    \/ GroupSkip
    \/ GroupResolve
    \/ SearchReject
    \/ SearchBumpAccepted
    \/ SearchBumpFixed
    \/ SearchRaise
    \/ AcceptDryRun
    \/ AcceptApply
    \/ UpdateNoMatch
    \/ UpdateOk
    \/ UpdateFail

Spec == Init /\ [][Next]_vars

\* ------------------------------------------ events_overlap called on its own
\* no run of main is under way: only the called function acts
NoRun ==
    /\ all_events = <<>>
    /\ schedule = <<>>
    /\ buffer = 0
    /\ max_end_t = 0
    /\ dry_run = FALSE
    /\ error = "none"
    /\ conflicts = <<>>
    /\ groups = <<>>
    /\ gi = 0
    /\ scheduled_event = NoEvent
    /\ real_conflicts = <<>>
    /\ start = 0
    /\ end = 0
    /\ accepted = <<>>
    /\ rescheduled = <<>>
    /\ service_updates = <<>>
    /\ printed = <<>>
    /\ resolver_calls = <<>>

run_vars == <<all_events, schedule, buffer, max_end_t, dry_run, error,
              conflicts, groups, gi, scheduled_event, real_conflicts, start,
              end, accepted, rescheduled, service_updates, printed,
              resolver_calls>>

\* min_minutes: the default 0, the 1 of the call sites, and values around
MinMinutesChoices == {0 - 2, 0 - 1, 0, 1, 2}

OverlapArgs ==
    { a \in [start1 : 0..MaxMinute, end1 : 0..MaxMinute,
              start2 : 0..MaxMinute, end2 : 0..MaxMinute,
              min_minutes : MinMinutesChoices] :
        a.start1 <= a.end1 /\ a.start2 <= a.end2 }

InitOverlap ==
    /\ NoRun
    /\ pc = "events_overlap"
    /\ fn_args \in OverlapArgs
    /\ fn_ret = NoCall

\* the function is called on the arguments, and on the two intervals swapped
CallEventsOverlap ==
    /\ pc = "events_overlap"
    /\ fn_ret' = [done    |-> TRUE,
                  value   |-> events_overlap(fn_args.start1, fn_args.end1,
                                             fn_args.start2, fn_args.end2,
                                             fn_args.min_minutes),
                  swapped |-> events_overlap(fn_args.start2, fn_args.end2,
                                             fn_args.start1, fn_args.end1,
                                             fn_args.min_minutes)]
    /\ pc' = "returned"
    /\ UNCHANGED <<run_vars, fn_args>>

NextOverlap == CallEventsOverlap

SpecOverlap == InitOverlap /\ [][NextOverlap]_vars

\* ------------------------------------ validate_schedule at import of the module
\* a schedule tuple as written in the schedule file: the first field and the
\* fields after it; a title is text (kind "str") or something else
RawTuple(kind, text, nums) ==
    [title |-> [kind |-> kind, text |-> text], nums |-> nums]

TuplePool ==
    { RawTuple("str", <<"Gym">>, <<2025, 7, 7, 9, 0, 10, 0>>),
      RawTuple("str", <<>>,      <<2025, 7, 7, 9, 0, 10, 0>>),
      RawTuple("int", <<>>,      <<2025, 7, 7, 9, 0, 10, 0>>),
      RawTuple("str", <<"Gym">>, <<2025, 7, 7, 9, 0, 10>>),
      RawTuple("str", <<"Gym">>, <<2025, 7, 7, 9, 0, 10, 0, 0>>),
      RawTuple("str", <<"Gym">>, <<2025, 13, 7, 9, 0, 10, 0>>),
      RawTuple("str", <<"Gym">>, <<2025, 2, 29, 9, 0, 10, 0>>),
      RawTuple("str", <<"Gym">>, <<2024, 2, 29, 9, 0, 10, 0>>),
      RawTuple("str", <<"Gym">>, <<2025, 7, 7, 9, 0, 24, 0>>),
      RawTuple("str", <<"Gym">>, <<2025, 7, 7, 9, 60, 10, 0>>),
      RawTuple("str", <<"Gym">>, <<2025, 7, 7, 10, 0, 9, 0>>),
      RawTuple("str", <<"Gym">>, <<2025, 7, 7, 9, 30, 9, 30>>),
      RawTuple("str", <<"Gym">>, <<2025, 7, 7, 9, 30, 9, 31>>) }

RawSchedules == UNION { [1..n -> TuplePool] : n \in 0..MaxTuples }

IsLeapYear(y) == (y % 4 = 0 /\ y % 100 # 0) \/ y % 400 = 0

DaysInMonth(y, m) ==
    IF m = 2 THEN (IF IsLeapYear(y) THEN 29 ELSE 28)
    ELSE IF m \in {4, 6, 9, 11} THEN 30 ELSE 31

\* datetime(y, m, d, hh, mm) raises ValueError unless
valid_datetime(y, m, d, hh, mm) ==
    /\ y \in 1..9999
    /\ m \in 1..12
    /\ d \in 1..DaysInMonth(y, m)
    /\ hh \in 0..23
    /\ mm \in 0..59

\* mutant of validate_event: the comparison of the times is not strict
validate_event_equal_times(event) ==
    IF 1 + Len(event.nums) # 8 THEN "ValueError"
    ELSE IF event.title.kind # "str" THEN "ValueError"
    ELSE LET n == event.nums
         IN  IF ~( /\ valid_datetime(n[1], n[2], n[3], n[4], n[5])
                   /\ valid_datetime(n[1], n[2], n[3], n[6], n[7]) )
             THEN "ValueError"
             ELSE IF n[4] > n[6] \/ (n[4] = n[6] /\ n[5] > n[7])
                  THEN "ValueError"
                  ELSE "ok"

\* the body of the loop of validate_schedule for one tuple
validate_event(event) ==
    IF 1 + Len(event.nums) # 8 THEN "ValueError"
    ELSE IF event.title.kind # "str" THEN "ValueError"
    ELSE LET n == event.nums
         IN  IF ~( /\ valid_datetime(n[1], n[2], n[3], n[4], n[5])
                   /\ valid_datetime(n[1], n[2], n[3], n[6], n[7]) )
             THEN "ValueError"
             \* (sh, sm) >= (eh, em), compared as tuples
             ELSE IF n[4] > n[6] \/ (n[4] = n[6] /\ n[5] >= n[7])
                  THEN "ValueError"
                  ELSE "ok"

validate_schedule(raw) ==
    IF \E i \in DOMAIN raw : validate_event(raw[i]) # "ok"
    THEN "ValueError" ELSE "ok"

InitValidate ==
    /\ NoRun
    /\ pc = "import"
    /\ fn_args \in RawSchedules
    /\ fn_ret = NoCall

\* validate_schedule returns: the module goes on to main
ValidateOk ==
    /\ pc = "import"
    /\ validate_schedule(fn_args) = "ok"
    /\ fn_ret' = [done |-> TRUE, raised |-> FALSE]
    /\ pc' = "main"
    /\ UNCHANGED <<run_vars, fn_args>>

\* validate_schedule raises: the message is printed and sys.exit(1) ends
\* the process
ValidateFail ==
    /\ pc = "import"
    /\ validate_schedule(fn_args) = "ValueError"
    /\ fn_ret' = [done |-> TRUE, raised |-> TRUE]
    /\ pc' = "exit"
    /\ UNCHANGED <<run_vars, fn_args>>

\* main builds the calendar service, the first use of the network
BuildService ==
    /\ pc = "main"
    /\ pc' = "service"
    /\ UNCHANGED <<run_vars, fn_args, fn_ret>>

NextValidate ==
    \/ ValidateOk
    \/ ValidateFail
    \/ BuildService

SpecValidate == InitValidate /\ [][NextValidate]_vars

\* ------------------------------------------ api_call_with_retry on its own
max_retries == 3

\* what one invocation of the wrapped call does: it returns, raises
\* HttpError with a status, or raises another exception (a socket timeout)
Returns       == [kind |-> "ok", status |-> 200]
HttpError(st) == [kind |-> "http", status |-> st]
Timeout       == [kind |-> "timeout", status |-> 0]

HttpStatuses == {400, 403, 404, 429, 500, 502, 503, 504}

Outcomes == {Returns, Timeout} \cup {HttpError(st) : st \in HttpStatuses}

\* e.resp.status in [403, 429, 500, 503]
RetriedStatuses == {403, 429, 500, 503}

\* attempt < max_retries - 1
retries_left(attempt) == attempt < max_retries - 1

\* fn_args: the outcome of each successive invocation of func
InitRetry ==
    /\ NoRun
    /\ pc = "api_call_with_retry"
    /\ fn_args \in [1..max_retries -> Outcomes]
    /\ fn_ret = [done |-> FALSE, attempt |-> 0, calls |-> 0, waits |-> <<>>,
                 result |-> "none"]

this_call == fn_args[fn_ret.calls + 1]

\* return func()
AttemptReturns ==
    /\ pc = "api_call_with_retry"
    /\ fn_ret.attempt < max_retries
    /\ this_call.kind = "ok"
    /\ fn_ret' = [fn_ret EXCEPT !.done = TRUE, !.calls = @ + 1,
                                !.result = "returned"]
    /\ pc' = "returned"
    /\ UNCHANGED <<run_vars, fn_args>>

\* except HttpError with a retried status and attempts left: sleep, go on
AttemptRetried ==
    /\ pc = "api_call_with_retry"
    /\ fn_ret.attempt < max_retries
    /\ this_call.kind = "http"
    /\ this_call.status \in RetriedStatuses
    /\ retries_left(fn_ret.attempt)
    /\ fn_ret' = [fn_ret EXCEPT !.calls = @ + 1, !.attempt = @ + 1,
                                !.waits = Append(@, 2 ^ fn_ret.attempt)]
    /\ UNCHANGED <<run_vars, fn_args, pc>>

\* except HttpError otherwise: raise
AttemptRaisesHttp ==
    /\ pc = "api_call_with_retry"
    /\ fn_ret.attempt < max_retries
    /\ this_call.kind = "http"
    /\ ~(this_call.status \in RetriedStatuses /\ retries_left(fn_ret.attempt))
    /\ fn_ret' = [fn_ret EXCEPT !.done = TRUE, !.calls = @ + 1,
                                !.result = "raised"]
    /\ pc' = "raised"
    /\ UNCHANGED <<run_vars, fn_args>>

\* an exception that is no HttpError is not caught
AttemptRaisesOther ==
    /\ pc = "api_call_with_retry"
    /\ fn_ret.attempt < max_retries
    /\ this_call.kind = "timeout"
    /\ fn_ret' = [fn_ret EXCEPT !.done = TRUE, !.calls = @ + 1,
                                !.result = "raised"]
    /\ pc' = "raised"
    /\ UNCHANGED <<run_vars, fn_args>>

NextRetry ==
    \/ AttemptReturns
    \/ AttemptRetried
    \/ AttemptRaisesHttp
    \/ AttemptRaisesOther

SpecRetry == InitRetry /\ [][NextRetry]_vars

\* ------------------------------------- main: push, clear mode and mark-done
\* Here all_events is the calendar itself (what events().list returns),
\* schedule the schedule file, fn_args the completion_strategies of the
\* configuration and fn_ret the last operation that ran.
CalEvent(id, summary, s, e, color, notes) ==
    [id |-> id, summary |-> summary, timed |-> TRUE, start |-> s, end |-> e,
     colorId |-> color, notes |-> notes]

PushBlockPool ==
    { Block(<<"Deep Work">>, 0, 9, 0, 11, 0),
      Block(<<"Gym">>,       0, 11, 0, 12, 0),
      Block(<<"Deep Work">>, 1, 9, 0, 11, 0) }

PushSchedules ==
    UNION { { s \in [1..n -> PushBlockPool] : Injective(s) }
            : n \in 0..MaxBlocks }

\* what the calendar holds before the first operation
InitialCalendars ==
    { <<>>,
      <<CalEvent(1, <<"Dentist">>, iso(HM(10, 0)), iso(HM(10, 30)), "1", 0)>>,
      <<[id |-> 1, summary |-> <<"Holiday">>, timed |-> FALSE,
         start |-> [wall |-> 0, off |-> TzOffset],
         end |-> [wall |-> MinutesPerDay, off |-> TzOffset],
         colorId |-> "1", notes |-> 0]>> }

\* completion_strategies: enabled and method
CompletionStrategies ==
    { [enabled |-> FALSE, method |-> "title_prefix"],
      [enabled |-> TRUE,  method |-> "title_prefix"],
      [enabled |-> TRUE,  method |-> "color_change"],
      [enabled |-> TRUE,  method |-> "description"] }

InitPush ==
    /\ all_events \in InitialCalendars
    /\ schedule \in PushSchedules
    /\ fn_args \in CompletionStrategies
    /\ fn_ret = NoCall
    /\ pc = "shell"
    /\ buffer = 0
    /\ max_end_t = 0
    /\ dry_run = FALSE
    /\ error = "none"
    /\ conflicts = <<>>
    /\ groups = <<>>
    /\ gi = 0
    /\ scheduled_event = NoEvent
    /\ real_conflicts = <<>>
    /\ start = 0
    /\ end = 0
    /\ accepted = <<>>
    /\ rescheduled = <<>>
    /\ service_updates = <<>>
    /\ printed = <<>>
    /\ resolver_calls = <<>>

push_frame == <<schedule, buffer, max_end_t, dry_run, error, conflicts,
                groups, gi, scheduled_event, real_conflicts, start, end,
                accepted, rescheduled, service_updates, printed,
                resolver_calls, fn_args>>

\* min(dates) and max(dates) of the schedule
min_date == SeqMin([k \in DOMAIN schedule |-> schedule[k].day])
max_date == SeqMax([k \in DOMAIN schedule |-> schedule[k].day])

\* events().list(timeMin=iso(start_time), timeMax=iso(end_time))
in_range(e, lo, hi) ==
    LET d == IF e.timed THEN DateOf(parse_datetime(e.start)) ELSE DateOf(e.start.wall)
    IN  lo <= d /\ d <= hi

existing_events ==
    LET lo == min_date
        hi == max_date
    IN  SelectSeq(all_events, LAMBDA e : in_range(e, lo, hi))

\* clear mode: fingerprint = (title, iso(start), iso(end))
schedule_fingerprints == schedule_fps(schedule)

\* clear mode: e["start"]["dateTime"] of an entry without dateTime
clear_raises == \E i \in DOMAIN existing_events : ~existing_events[i].timed

\* clear mode: the list that is built from the matching events
events_to_delete ==
    LET fps == schedule_fingerprints
    IN  SelectSeq(existing_events, LAMBDA e :
            <<StripMarker(e.summary), e.start, e.end>> \in fps)

\* dateTime[:16]: the wall clock up to the minute, without the offset;
\* the empty string for an entry without dateTime
Slice16(e, s) == IF e.timed THEN s.wall ELSE 0 - 1

get_existing_events ==
    LET events == existing_events
    IN  { <<events[i].summary,
            Slice16(events[i], events[i].start),
            Slice16(events[i], events[i].end)>> : i \in DOMAIN events }

\* fingerprint = (title, iso(start)[:16], iso(end)[:16])
block_fingerprint(b) == <<b.title, BlockStart(b), BlockEnd(b)>>

\* step 6: the blocks that are not skipped as duplicates
new_events ==
    LET existing == get_existing_events
    IN  SelectSeq(schedule, LAMBDA b : block_fingerprint(b) \notin existing)

NextId == IF all_events = <<>> THEN 1
          ELSE 1 + SeqMax([i \in DOMAIN all_events |-> all_events[i].id])

\* the events the batch inserts: those of new_events whose insert succeeded
RECURSIVE inserted_events(_, _, _, _)
inserted_events(new, k, id, ok) ==
    IF k > Len(new) THEN <<>>
    ELSE IF k \in ok
         THEN <<CalEvent(id, new[k].title, iso(BlockStart(new[k])),
                         iso(BlockEnd(new[k])), "category", 0)>>
              \o inserted_events(new, k + 1, id + 1, ok)
         ELSE inserted_events(new, k + 1, id, ok)

last_op(op, clear, dry, to_delete, added) ==
    [done |-> TRUE, op |-> op, clear |-> clear, dry |-> dry,
     events_to_delete |-> to_delete, added |-> added]

\* main with an empty schedule: prints the format and returns
PushNoSchedule ==
    /\ pc = "shell"
    /\ schedule = <<>>
    /\ fn_ret' = last_op("no schedule", FALSE, FALSE, <<>>, 0)
    /\ UNCHANGED <<all_events, push_frame, pc>>

\* main --clear with an entry without dateTime in the range: KeyError
PushClearRaises ==
    /\ pc = "shell"
    /\ schedule # <<>>
    /\ clear_raises
    /\ \E dry \in BOOLEAN :
           fn_ret' = last_op("push", TRUE, dry, <<>>, 0)
    /\ pc' = "crashed"
    /\ error' = "KeyError"
    /\ UNCHANGED <<all_events, schedule, buffer, max_end_t, dry_run, conflicts,
                   groups, gi, scheduled_event, real_conflicts, start, end,
                   accepted, rescheduled, service_updates, printed,
                   resolver_calls, fn_args>>

\* main, dry run: the new events are listed, nothing is inserted
PushDryRun ==
    /\ pc = "shell"
    /\ schedule # <<>>
    /\ LET to_delete == events_to_delete
           raises    == clear_raises
       IN  \E clear \in BOOLEAN :
               /\ clear => ~raises
               /\ fn_ret' = last_op("push", clear, TRUE,
                      IF clear THEN [i \in DOMAIN to_delete |-> to_delete[i].id]
                      ELSE <<>>, 0)
    /\ UNCHANGED <<all_events, push_frame, pc>>

\* main: the new events are inserted in a batch; clear mode has built
\* events_to_delete before and nothing reads it
PushUpload ==
    /\ pc = "shell"
    /\ schedule # <<>>
    /\ LET new       == new_events
           to_delete == events_to_delete
           raises    == clear_raises
       IN  /\ Len(all_events) + Len(new) <= MaxCalendar
           /\ \E clear \in BOOLEAN :
              \E ok \in SUBSET DOMAIN new :
                  /\ clear => ~raises
                  /\ all_events' = all_events \o inserted_events(new, 1, NextId, ok)
                  /\ fn_ret' = last_op("push", clear, FALSE,
                         IF clear THEN [i \in DOMAIN to_delete |-> to_delete[i].id]
                         ELSE <<>>, Cardinality(ok))
    /\ UNCHANGED <<push_frame, pc>>

\* mark_event_complete applied to the event
marked_complete(e) ==
    IF fn_args.method = "title_prefix"
    THEN IF e.summary # <<>> /\ Head(e.summary) = Marker THEN e
         ELSE [e EXCEPT !.summary = <<Marker>> \o @]
    ELSE IF fn_args.method = "color_change"
         THEN [e EXCEPT !.colorId = "8"]
         ELSE [e EXCEPT !.notes = @ + 1]

\* events of the day the query q finds
found_by(q, day) ==
    { i \in DOMAIN all_events :
        /\ StripMarker(all_events[i].summary) = q
        /\ (IF all_events[i].timed
            THEN DateOf(parse_datetime(all_events[i].start))
            ELSE DateOf(all_events[i].start.wall)) = day }

\* main --mark-done q: every found event is marked, and the update of some
\* of them may fail
MarkDone ==
    /\ pc = "shell"
    /\ \E q \in {<<"Deep Work">>, <<"Gym">>, <<"Dentist">>} :
       \E day \in {TargetDate, TargetDate + 1} :
       \E ok \in SUBSET found_by(q, day) :
           /\ ~fn_args.enabled => ok = {}
           /\ \A i \in ok : all_events[i].notes < MaxCalendar
           /\ all_events' = [i \in DOMAIN all_events |->
                                 IF i \in ok THEN marked_complete(all_events[i])
                                 ELSE all_events[i]]
           /\ fn_ret' = last_op("mark-done", FALSE, FALSE, <<>>, Cardinality(ok))
    /\ UNCHANGED <<push_frame, pc>>

NextPush ==
    \/ PushNoSchedule
    \/ PushClearRaises
    \/ PushDryRun
    \/ PushUpload
    \/ MarkDone

SpecPush == InitPush /\ [][NextPush]_vars

\* --------------------------------------------- api/webhook.py: handler.do_POST
\* Here fn_args is the environment of the function (WEBHOOK_TOKEN, and
\* whether push_schedule.py can be read from the working directory) and
\* fn_ret the log of the requests served so far. A header or an environment
\* variable is the set of its values: {} when it is absent, {v} otherwise.
get(field, default) == IF field = {} THEN default ELSE CHOOSE v \in field : TRUE

ContentLengths == { {}, {<<"1", "2">>}, {<<"a">>}, {<<>>} }
ChannelTokens  == { {}, {"secret"}, {"wrong"} }
ResourceStates == { {}, {"sync"}, {"exists"}, {"not_exists"} }

Requests ==
    [content_length : ContentLengths, token : ChannelTokens,
     state : ResourceStates]

Environments == [WEBHOOK_TOKEN : { {}, {"secret"} }, push_script : BOOLEAN]

DecimalDigits == {"0", "1", "2", "3", "4", "5", "6", "7", "8", "9"}

\* int(text) returns for a non-empty run of decimal digits and raises
\* ValueError for the other texts of ContentLengths
int_raises(text) == text = <<>> \/ \E i \in DOMAIN text : text[i] \notin DecimalDigits

\* int(self.headers.get('Content-Length', 0)): the default 0 is the number
content_length_raises(req) ==
    req.content_length # {} /\ int_raises(get(req.content_length, <<>>))

webhook_token(req)  == get(req.token, "")
resource_state(req) == get(req.state, "")

\* webhook_token != os.environ.get('WEBHOOK_TOKEN', '')
token_rejected(req) == webhook_token(req) # get(fn_args.WEBHOOK_TOKEN, "")

\* one entry of the log: the status sent (0: do_POST raised before any
\* send_response), the body, whether the files of the temporary directory
\* were written and whether subprocess.run was called
Served(req, status, body, wrote, launched) ==
    [request |-> req, status |-> status, body |-> body, wrote |-> wrote,
     launched |-> launched]

InitWebhook ==
    /\ NoRun
    /\ pc = "serving"
    /\ fn_args \in Environments
    /\ fn_ret = <<>>

\* int() raises ValueError on the Content-Length header: do_POST ends there
PostBadLength ==
    /\ pc = "serving" /\ Len(fn_ret) < MaxRequests
    /\ \E req \in Requests :
         /\ content_length_raises(req)
         /\ fn_ret' = Append(fn_ret, Served(req, 0, "", FALSE, FALSE))
    /\ UNCHANGED <<run_vars, fn_args, pc>>

\* Verify token
PostUnauthorized ==
    /\ pc = "serving" /\ Len(fn_ret) < MaxRequests
    /\ \E req \in Requests :
         /\ ~content_length_raises(req)
         /\ token_rejected(req)
         /\ fn_ret' = Append(fn_ret,
                             Served(req, 401, "Unauthorized", FALSE, FALSE))
    /\ UNCHANGED <<run_vars, fn_args, pc>>

\* Handle sync message
PostSyncMessage ==
    /\ pc = "serving" /\ Len(fn_ret) < MaxRequests
    /\ \E req \in Requests :
         /\ ~content_length_raises(req)
         /\ ~token_rejected(req)
         /\ resource_state(req) = "sync"
         /\ fn_ret' = Append(fn_ret, Served(req, 200, "OK", FALSE, FALSE))
    /\ UNCHANGED <<run_vars, fn_args, pc>>

\* Handle calendar changes: the files are written, the sync is run
PostExistsCompleted ==
    /\ pc = "serving" /\ Len(fn_ret) < MaxRequests
    /\ \E req \in Requests :
         /\ ~content_length_raises(req)
         /\ ~token_rejected(req)
         /\ resource_state(req) = "exists"
         /\ fn_args.push_script
         /\ fn_ret' = Append(fn_ret, Served(req, 200, "completed", TRUE, TRUE))
    /\ UNCHANGED <<run_vars, fn_args, pc>>

\* open('push_schedule.py') raises before subprocess.run: except, 500
PostExistsFailed ==
    /\ pc = "serving" /\ Len(fn_ret) < MaxRequests
    /\ \E req \in Requests :
         /\ ~content_length_raises(req)
         /\ ~token_rejected(req)
         /\ resource_state(req) = "exists"
         /\ ~fn_args.push_script
         /\ fn_ret' = Append(fn_ret, Served(req, 500, "error", TRUE, FALSE))
    /\ UNCHANGED <<run_vars, fn_args, pc>>

\* else: any other resource state
PostOtherState ==
    /\ pc = "serving" /\ Len(fn_ret) < MaxRequests
    /\ \E req \in Requests :
         /\ ~content_length_raises(req)
         /\ ~token_rejected(req)
         /\ resource_state(req) \notin {"sync", "exists"}
         /\ fn_ret' = Append(fn_ret, Served(req, 200, "OK", FALSE, FALSE))
    /\ UNCHANGED <<run_vars, fn_args, pc>>

NextWebhook ==
    \/ PostBadLength
    \/ PostUnauthorized
    \/ PostSyncMessage
    \/ PostExistsCompleted
    \/ PostExistsFailed
    \/ PostOtherState

SpecWebhook == InitWebhook /\ [][NextWebhook]_vars

\* ------------------------------------------------ vocabulary of the claims
Terminal == pc \in {"done", "crashed"}

\* length in minutes of the intersection of [a, b] and [c, d]
OverlapMinutes(a, b, c, d) ==
    (IF b <= d THEN b ELSE d) - (IF a >= c THEN a ELSE c)

BareTitle(title) == SelectSeq(title, LAMBDA tok : tok # Marker)
EntryStart(e) == e.start.wall - e.start.off + TzOffset
EntryEnd(e)   == e.end.wall - e.end.off + TzOffset

IsScheduleTitle(title) == \E k \in DOMAIN schedule : schedule[k].title = title

\* calendar entries that are not instances of a schedule title
ManualEntries ==
    { i \in DOMAIN all_events :
        all_events[i].timed /\ ~IsScheduleTitle(BareTitle(all_events[i].summary)) }

MaxManualEnd(cs) ==
    CHOOSE m \in {cs[k].manual_end : k \in DOMAIN cs} :
        \A k \in DOMAIN cs : cs[k].manual_end <= m

\* C1 - No-overlap postcondition: when handle_conflicts has ended, no
\* accepted relocation overlaps by 1 minute or more a calendar entry whose
\* title (marker stripped) is not a schedule title, nor another relocation
\* accepted in the same run.
C1_NoOverlapPostcondition ==
    Terminal =>
        \A k \in DOMAIN accepted :
            /\ \A i \in ManualEntries :
                   OverlapMinutes(accepted[k][1], accepted[k][2],
                                  EntryStart(all_events[i]),
                                  EntryEnd(all_events[i])) < 1
            /\ \A j \in DOMAIN accepted :
                   j # k =>
                       OverlapMinutes(accepted[k][1], accepted[k][2],
                                      accepted[j][1], accepted[j][2]) < 1

\* two relocations were accepted, the second after being bumped past the
\* first, with a manual entry on the calendar
C1_Witness ==
    /\ pc = "done"
    /\ Len(accepted) = 2
    /\ ManualEntries # {}
    /\ \E k \in DOMAIN resolver_calls :
           /\ resolver_calls[k].ok
           /\ resolver_calls[k].blocked # <<>>
           /\ resolver_calls[k].start >
                  MaxManualEnd(resolver_calls[k].conflicts) + buffer

\* C2 - Forward-only movement: every accepted relocation starts at or after
\* the original start of the block recorded as old_start.
C2_ForwardOnly ==
    /\ \A k \in DOMAIN rescheduled :
           rescheduled[k].new_start >= rescheduled[k].old_start
    /\ \A k \in DOMAIN resolver_calls :
           resolver_calls[k].ok =>
               resolver_calls[k].start >= resolver_calls[k].event.start

\* a block with conflicts from several manual entries was relocated
C2_Witness ==
    \E k \in DOMAIN rescheduled :
        \E c \in DOMAIN resolver_calls :
            /\ resolver_calls[c].ok
            /\ resolver_calls[c].event.start = rescheduled[k].old_start
            /\ resolver_calls[c].start = rescheduled[k].new_start
            /\ Len(resolver_calls[c].conflicts) >= 2
            /\ \E x, y \in DOMAIN resolver_calls[c].conflicts :
                   resolver_calls[c].conflicts[x].manual_event #
                   resolver_calls[c].conflicts[y].manual_event

\* C3 - Cutoff respected: no slot returned by calculate_rescheduled_time has
\* an end time of day later than max_end_time, on the same date or a later one.
C3_CutoffRespected ==
    /\ \A k \in DOMAIN resolver_calls :
           resolver_calls[k].ok =>
               (resolver_calls[k].end % MinutesPerDay) <= max_end_t
    /\ \A k \in DOMAIN accepted :
           (accepted[k][2] % MinutesPerDay) <= max_end_t

\* a returned slot crosses midnight while the cutoff is 13:00
C3_Witness ==
    /\ max_end_t = HM(13, 0)
    /\ \E k \in DOMAIN accepted :
           /\ accepted[k][1] < MinutesPerDay
           /\ accepted[k][2] > MinutesPerDay

\* detect_conflicts has returned and the snapshot is as it was handed to it
Detected == pc # "sync" /\ error # "KeyError" /\ service_updates = <<>>

IsOwnBlock(title, s, e) ==
    \E k \in DOMAIN schedule :
        /\ schedule[k].title = title
        /\ schedule[k].day * MinutesPerDay
               + schedule[k].sh * 60 + schedule[k].sm = s
        /\ schedule[k].day * MinutesPerDay
               + schedule[k].eh * 60 + schedule[k].em = e

OverlapsBlockOfTheDay(s, e) ==
    \E k \in DOMAIN schedule :
        /\ schedule[k].day = TargetDate
        /\ OverlapMinutes(s, e,
               schedule[k].day * MinutesPerDay
                   + schedule[k].sh * 60 + schedule[k].sm,
               schedule[k].day * MinutesPerDay
                   + schedule[k].eh * 60 + schedule[k].em) >= 1

\* C4 - Self-identity exclusion: an entry whose (stripped title, start, end)
\* is the fingerprint of a schedule block is never the manual_event of a
\* record, and an entry with a block's title at other times that overlaps a
\* block of the day is the manual_event of some record.
C4_SelfIdentityExclusion ==
    /\ \A k \in DOMAIN conflicts :
           ~IsOwnBlock(BareTitle(all_events[conflicts[k].manual_event].summary),
                       conflicts[k].manual_start, conflicts[k].manual_end)
    /\ Detected =>
           \A i \in DOMAIN all_events :
               LET e == all_events[i]
               IN  /\ IsOwnBlock(BareTitle(e.summary), EntryStart(e), EntryEnd(e))
                       => \A k \in DOMAIN conflicts :
                              conflicts[k].manual_event # i
                   /\ ( /\ IsScheduleTitle(BareTitle(e.summary))
                        /\ ~IsOwnBlock(BareTitle(e.summary),
                                       EntryStart(e), EntryEnd(e))
                        /\ OverlapsBlockOfTheDay(EntryStart(e), EntryEnd(e)) )
                       => \E k \in DOMAIN conflicts :
                              conflicts[k].manual_event = i

\* the snapshot holds the marked-done instance of a block at the block's
\* times, which overlaps a block of the day, and an instance at other times
\* that is reported
C4_Witness ==
    /\ pc = "handle"
    /\ \E i \in DOMAIN all_events :
           /\ Marker \in {all_events[i].summary[t] :
                             t \in DOMAIN all_events[i].summary}
           /\ all_events[i].start.off # TzOffset
           /\ IsOwnBlock(BareTitle(all_events[i].summary),
                         EntryStart(all_events[i]), EntryEnd(all_events[i]))
           /\ OverlapsBlockOfTheDay(EntryStart(all_events[i]),
                                    EntryEnd(all_events[i]))
    /\ \E k \in DOMAIN conflicts :
           IsScheduleTitle(
               BareTitle(all_events[conflicts[k].manual_event].summary))

BlockValue(b) ==
    [title |-> b.title,
     start |-> b.day * MinutesPerDay + b.sh * 60 + b.sm,
     end   |-> b.day * MinutesPerDay + b.eh * 60 + b.em]

\* the pair (calendar entry i, schedule block b) is one detect_conflicts
\* has to report
QualifyingPair(i, b) ==
    LET e == all_events[i]
        v == BlockValue(schedule[b])
    IN  /\ e.timed
        /\ ~IsOwnBlock(BareTitle(e.summary), EntryStart(e), EntryEnd(e))
        /\ schedule[b].day = TargetDate
        /\ OverlapMinutes(EntryStart(e), EntryEnd(e), v.start, v.end) >= 1

RecordsOfPair(i, b) ==
    { k \in DOMAIN conflicts :
        /\ conflicts[k].manual_event = i
        /\ conflicts[k].scheduled_event = BlockValue(schedule[b]) }

\* C5 - detect_conflicts returns exactly one record for each pair (entry,
\* block) where the entry is timed and no self-match, the block is on the
\* target date and the two overlap by at least 1 minute, and no record for
\* any other pair.
C5_ExactlyOneRecordPerPair ==
    (pc # "sync" /\ service_updates = <<>>) =>
        \A i \in DOMAIN all_events :
            \A b \in DOMAIN schedule :
                Cardinality(RecordsOfPair(i, b)) =
                    IF QualifyingPair(i, b) THEN 1 ELSE 0

\* the same statement for the runs in which detect_conflicts returns
C5_ExactRecordsWhenReturned ==
    Detected =>
        \A i \in DOMAIN all_events :
            \A b \in DOMAIN schedule :
                Cardinality(RecordsOfPair(i, b)) =
                    IF QualifyingPair(i, b) THEN 1 ELSE 0

\* the slot has no obstacle: no accepted move and no manual entry overlaps it
NoObstacle(s, e, blocked) ==
    /\ \A k \in DOMAIN blocked :
           OverlapMinutes(s, e, blocked[k][1], blocked[k][2]) < 1
    /\ \A i \in ManualEntries :
           OverlapMinutes(s, e, EntryStart(all_events[i]),
                          EntryEnd(all_events[i])) < 1

OnlyEntries(ids) ==
    /\ Len(all_events) = Cardinality(ids)
    /\ {all_events[i].id : i \in DOMAIN all_events} = ids

\* C6 - When the candidate computed from the conflicts meets no obstacle and
\* passes the cutoff, calculate_rescheduled_time returns new_start = latest
\* manual_end of the conflicts + buffer_minutes and new_end = new_start + the
\* block's duration; a 09:00-11:00 block with one conflict ending 10:30 and
\* buffer 30 goes to 11:00-13:00, and with conflicts ending 10:30 and 11:15
\* and buffer 15 it starts at 11:30.
C6_InitialCandidateReturned ==
    /\ \A k \in DOMAIN resolver_calls :
           LET c  == resolver_calls[k]
               s0 == MaxManualEnd(c.conflicts) + buffer
               e0 == s0 + (c.event.end - c.event.start)
           IN  (NoObstacle(s0, e0, c.blocked) /\ (e0 % MinutesPerDay) <= max_end_t)
                   => (c.ok /\ c.start = s0 /\ c.end = e0)
    /\ ( /\ Terminal
         /\ schedule = <<Block(<<"Deep Work">>, 0, 9, 0, 11, 0)>>
         /\ OnlyEntries({1})
         /\ buffer = 30 )
           => accepted = << <<HM(11, 0), HM(13, 0)>> >>
    /\ ( /\ Terminal
         /\ schedule = <<Block(<<"Deep Work">>, 0, 9, 0, 11, 0)>>
         /\ OnlyEntries({1, 2})
         /\ buffer = 15
         /\ max_end_t = HM(23, 59) )
           => accepted = << <<HM(11, 30), HM(13, 30)>> >>

\* the two-conflict scenario was resolved at the first candidate
C6_Witness ==
    /\ pc = "done"
    /\ OnlyEntries({1, 2})
    /\ buffer = 15
    /\ Len(resolver_calls) = 1
    /\ Len(resolver_calls[1].conflicts) = 2
    /\ resolver_calls[1].ok
    /\ resolver_calls[1].start = HM(11, 30)

\* C7 - The slot search ends by returning a legal slot or none, never by
\* raising an error, also when an obstacle lies inside the candidate
\* interval and ends before the candidate's end.
C7_SearchNeverRaises == error # "ValueError"

\* every iteration of the search loop that continues moves the start forward
C7_StrictAdvance ==
    [][(pc = "search" /\ pc' = "search") => start' > start]_vars

\* a block got this diagnostic
Reported(msgs, title, old_start) ==
    \E k \in DOMAIN printed :
        /\ printed[k].msg \in msgs
        /\ printed[k].title = title
        /\ printed[k].old_start = old_start

\* groups that reach calculate_rescheduled_time
GroupsWithRealConflicts ==
    { g \in DOMAIN groups :
        \E k \in DOMAIN groups[g].ev_conflicts :
            BareTitle(all_events[groups[g].ev_conflicts[k].manual_event].summary)
                # groups[g].title }

\* C8 - Unresolvable conflict is non-fatal: a block for which the resolver
\* returned none gets no accepted slot, no returned record and no calendar
\* update, and every remaining group is still processed.
C8_UnresolvedIsNonFatal ==
    \A k \in DOMAIN resolver_calls :
        ~resolver_calls[k].ok =>
            /\ ~Reported({"Moving", "Rescheduled successfully", "API error"},
                         resolver_calls[k].event.title,
                         resolver_calls[k].event.start)
            /\ \A r \in DOMAIN rescheduled :
                   rescheduled[r].title # resolver_calls[k].event.title
            /\ Terminal =>
                   Len(resolver_calls) = Cardinality(GroupsWithRealConflicts)

\* the step at which the resolver returns none changes nothing but the
\* diagnostics and moves on to the next group
C8_NoneStepChangesNothing ==
    [][( /\ Len(resolver_calls') = Len(resolver_calls) + 1
         /\ ~resolver_calls'[Len(resolver_calls')].ok )
           => ( /\ UNCHANGED <<accepted, rescheduled, service_updates,
                               all_events>>
                /\ pc' = "loop"
                /\ gi' = gi + 1 )]_vars

\* C9 - No conflict is silently dropped: when handle_conflicts has finished,
\* every schedule block in a conflict record whose manual entry has another
\* title is relocated, reported unresolved or reported as failed to persist,
\* also when two blocks of the day share a title.
C9_NoConflictDropped ==
    pc = "done" =>
        \A k \in DOMAIN conflicts :
            BareTitle(all_events[conflicts[k].manual_event].summary)
                    # conflicts[k].scheduled_event.title
                => Reported({"Moving", "No free slot", "API error"},
                            conflicts[k].scheduled_event.title,
                            conflicts[k].scheduled_event.start)

\* C10 - handle_conflicts returns the full list of accepted relocations:
\* when no update call failed, the returned list holds exactly one record per
\* accepted slot, in apply mode as in dry-run mode.
C10_ReturnsAllAccepted ==
    ( /\ pc = "done"
      /\ \A u \in DOMAIN service_updates : service_updates[u].ok )
        => /\ Len(rescheduled) = Len(accepted)
           /\ \A k \in DOMAIN rescheduled :
                  /\ rescheduled[k].new_start = accepted[k][1]
                  /\ rescheduled[k].new_end = accepted[k][2]

\* the same statement for dry-run mode alone
C10_DryRunReturnsAllAccepted ==
    (pc = "done" /\ dry_run)
        => /\ Len(rescheduled) = Len(accepted)
           /\ \A k \in DOMAIN rescheduled :
                  /\ rescheduled[k].new_start = accepted[k][1]
                  /\ rescheduled[k].new_end = accepted[k][2]

\* slots returned by the resolver calls that came before call k
SlotsAcceptedBefore(k) ==
    LET oks == SelectSeq(SubSeq(resolver_calls, 1, k - 1), LAMBDA c : c.ok)
    IN  [j \in DOMAIN oks |-> <<oks[j].start, oks[j].end>>]

\* original start of the block of a group's first conflict record
FirstRecordStart(g) == groups[g].ev_conflicts[1].scheduled_event.start

\* position in the processing order of the group a resolver call belongs to
GroupOfCall(k) ==
    CHOOSE g \in DOMAIN groups : groups[g].title = resolver_calls[k].event.title

\* C11 - handle_conflicts processes the groups in ascending order of the
\* block's original start, every resolver call receives as obstacles exactly
\* the slots accepted before it, and of two relocated blocks the one with the
\* earlier original start gets the earlier new slot.
C11_EarlierBlockEarlierSlot ==
    /\ \A k, l \in DOMAIN resolver_calls :
           k < l => resolver_calls[k].event.start <= resolver_calls[l].event.start
    /\ \A k \in DOMAIN resolver_calls :
           resolver_calls[k].blocked = SlotsAcceptedBefore(k)
    /\ \A k, l \in DOMAIN resolver_calls :
           ( /\ resolver_calls[k].ok
             /\ resolver_calls[l].ok
             /\ resolver_calls[k].event.start < resolver_calls[l].event.start )
               => resolver_calls[k].start < resolver_calls[l].start

\* C11 (amended) - handle_conflicts processes the groups in ascending order
\* of the original start of the block of each group's first conflict record,
\* and every resolver call receives as obstacles exactly the slots accepted
\* by the calls before it; the new slots need not keep the blocks' order.
C11_ChronologicalProcessing ==
    /\ \A g, h \in DOMAIN groups :
           g < h => FirstRecordStart(g) <= FirstRecordStart(h)
    /\ \A k, l \in DOMAIN resolver_calls :
           k < l => GroupOfCall(k) < GroupOfCall(l)
    /\ \A k \in DOMAIN resolver_calls :
           resolver_calls[k].blocked = SlotsAcceptedBefore(k)

\* the groups were reordered by the sort, and the block processed second,
\* with the first one's slot as obstacle, got a slot before the first one's
C11_Witness ==
    /\ pc = "done"
    /\ groups # by_title(conflicts)
    /\ \E k, l \in DOMAIN resolver_calls :
           /\ k < l
           /\ resolver_calls[k].ok
           /\ resolver_calls[l].ok
           /\ resolver_calls[l].blocked # <<>>
           /\ resolver_calls[k].event.start < resolver_calls[l].event.start
           /\ resolver_calls[l].start < resolver_calls[k].start

\* minutes between two slots that do not overlap (negative when they do)
GapMinutes(a, b, c, d) == IF a >= c THEN a - d ELSE c - b

\* C12 - Buffer enforced between placed intervals: the gap between an
\* accepted relocation and any other relocation accepted in the same run,
\* and between it and any calendar entry without a schedule title that ends
\* at or before its new start, is at least buffer_minutes.
C12_BufferEnforced ==
    \A k \in DOMAIN accepted :
        /\ \A j \in DOMAIN accepted :
               j # k => GapMinutes(accepted[k][1], accepted[k][2],
                                   accepted[j][1], accepted[j][2]) >= buffer
        /\ \A i \in ManualEntries :
               EntryEnd(all_events[i]) <= accepted[k][1]
                   => accepted[k][1] - EntryEnd(all_events[i]) >= buffer

\* conflict_resolution.gym_preferences of DEFAULT_CONFIG, as times of day
gym_morning_end   == HM(17, 30)
gym_evening_start == HM(19, 30)

HasKeyword(title, kw) == \E t \in DOMAIN title : title[t] = kw

\* C13 - Window-preference snapping: no block whose title contains the
\* keyword Gym is relocated to a start strictly between morning_end and
\* evening_start; a candidate start inside that band is moved to
\* evening_start.
C13_WindowSnapping ==
    \A k \in DOMAIN resolver_calls :
        (resolver_calls[k].ok /\ HasKeyword(resolver_calls[k].event.title, "Gym"))
            => ~( /\ gym_morning_end < resolver_calls[k].start % MinutesPerDay
                  /\ resolver_calls[k].start % MinutesPerDay < gym_evening_start )

\* C14 - Overlap symmetry: events_overlap(a, b, c, d, m) equals
\* events_overlap(c, d, a, b, m) for all intervals and every min_minutes.
C14_OverlapSymmetry ==
    (pc = "returned" /\ fn_ret.done) => fn_ret.value = fn_ret.swapped

\* two different intervals that overlap in part were compared with a
\* positive threshold, and the answer was yes
C14_Witness ==
    /\ pc = "returned"
    /\ fn_ret.done
    /\ fn_args.start1 < fn_args.start2
    /\ fn_args.start2 < fn_args.end1
    /\ fn_args.end1 < fn_args.end2
    /\ fn_args.min_minutes >= 1
    /\ fn_ret.value

\* C15 - events_overlap returns true exactly when the overlap in minutes is
\* at least min_minutes, and for min_minutes <= 0 it returns false for
\* intervals whose overlap is zero or negative: touching or disjoint
\* intervals are never reported as overlapping.
C15_TouchingIsNoOverlap ==
    (pc = "returned" /\ fn_ret.done) =>
        LET overlap == OverlapMinutes(fn_args.start1, fn_args.end1,
                                      fn_args.start2, fn_args.end2)
        IN  /\ fn_ret.value <=> (overlap >= fn_args.min_minutes)
            /\ (fn_args.min_minutes <= 0 /\ overlap <= 0) => ~fn_ret.value

\* the first half of C15 alone: true exactly when overlap >= min_minutes
C15_ThresholdOnly ==
    (pc = "returned" /\ fn_ret.done) =>
        (fn_ret.value <=>
            OverlapMinutes(fn_args.start1, fn_args.end1,
                           fn_args.start2, fn_args.end2) >= fn_args.min_minutes)

\* C16 - All-day events are ignored: an entry with start and end but no
\* dateTime makes neither detect_conflicts nor the slot search fail and is
\* in no record, and the records of the timed entries are those of the
\* snapshot without it.
C16_AllDayEntriesIgnored ==
    (pc # "sync" /\ service_updates = <<>>) =>
        /\ error # "KeyError"
        /\ \A k \in DOMAIN conflicts :
               all_events[conflicts[k].manual_event].timed
        /\ \A i \in DOMAIN all_events :
               all_events[i].timed =>
                   \A b \in DOMAIN schedule :
                       Cardinality(RecordsOfPair(i, b)) =
                           IF QualifyingPair(i, b) THEN 1 ELSE 0

IsCalendarDateTime(y, m, d, hh, mm) ==
    /\ y >= 1 /\ y <= 9999
    /\ m >= 1 /\ m <= 12
    /\ d >= 1
    /\ d <= (IF m = 2
             THEN (IF (y % 4 = 0 /\ y % 100 # 0) \/ y % 400 = 0
                   THEN 29 ELSE 28)
             ELSE IF m \in {4, 6, 9, 11} THEN 30 ELSE 31)
    /\ hh >= 0 /\ hh <= 23
    /\ mm >= 0 /\ mm <= 59

\* the tuple has 8 fields, valid start and end datetimes and a start time of
\* day strictly before the end time of day
WellFormedTimes(e) ==
    /\ 1 + Len(e.nums) = 8
    /\ IsCalendarDateTime(e.nums[1], e.nums[2], e.nums[3], e.nums[4], e.nums[5])
    /\ IsCalendarDateTime(e.nums[1], e.nums[2], e.nums[3], e.nums[6], e.nums[7])
    /\ e.nums[4] * 60 + e.nums[5] < e.nums[6] * 60 + e.nums[7]

\* C18 - validate_schedule accepts a schedule if and only if every tuple has
\* exactly 8 fields, a non-empty text title, valid start and end datetimes
\* and a start time of day strictly before the end time of day; on any
\* violation it raises and the run exits before any calendar service call.
C18_AcceptsIffWellFormed ==
    fn_ret.done =>
        /\ ~fn_ret.raised <=>
               \A i \in DOMAIN fn_args :
                   /\ WellFormedTimes(fn_args[i])
                   /\ fn_args[i].title.kind = "str"
                   /\ fn_args[i].title.text # <<>>
        /\ fn_ret.raised => pc = "exit"

\* C18 (amended) - validate_schedule accepts a schedule if and only if every
\* tuple has exactly 8 fields, a title that is text (empty or not), valid
\* start and end datetimes and a start time of day strictly before the end
\* time of day; on any violation it raises and the run exits before any
\* calendar service call.
C18_AcceptsIffWellFormedAnyText ==
    fn_ret.done =>
        /\ ~fn_ret.raised <=>
               \A i \in DOMAIN fn_args :
                   /\ WellFormedTimes(fn_args[i])
                   /\ fn_args[i].title.kind = "str"
        /\ fn_ret.raised => pc = "exit"

\* a schedule of two tuples, one with the empty title, was accepted and main
\* went on to build the service
C18_Witness ==
    /\ pc = "service"
    /\ fn_ret.done
    /\ ~fn_ret.raised
    /\ Len(fn_args) = 2
    /\ \E i \in DOMAIN fn_args : fn_args[i].title.text = <<>>
    /\ \E i \in DOMAIN fn_args : fn_args[i].title.text # <<>>

\* C19 - Dry run changes nothing: with dry_run set no update call is issued
\* and every entry of all_events keeps its start and end; an entry changes
\* only with dry_run unset, and then it is the entry with the block's title
\* and original start, rewritten to the new start and end.
C19_DryRunChangesNothing ==
    [][ /\ dry_run => (service_updates' = <<>> /\ all_events' = all_events)
        /\ all_events' # all_events =>
               /\ ~dry_run
               /\ \E i \in DOMAIN all_events :
                      /\ BareTitle(all_events[i].summary) = scheduled_event.title
                      /\ EntryStart(all_events[i]) = scheduled_event.start
                      /\ all_events' =
                             [all_events EXCEPT
                                 ![i].start = [wall |-> start, off |-> TzOffset],
                                 ![i].end   = [wall |-> end, off |-> TzOffset]]
      ]_vars

\* a dry run has relocated the block whose calendar instance is in the
\* snapshot, and the instance still sits at the block's original start
C19_Witness ==
    /\ dry_run
    /\ pc = "done"
    /\ \E k \in DOMAIN rescheduled :
           \E i \in DOMAIN all_events :
               /\ BareTitle(all_events[i].summary) = rescheduled[k].title
               /\ EntryStart(all_events[i]) = rescheduled[k].old_start
               /\ rescheduled[k].new_start > rescheduled[k].old_start

\* the calendar entry with this id, as the snapshot holds it
EntryWithId(id) == CHOOSE e \in {all_events[i] : i \in DOMAIN all_events} : e.id = id

FailedUpdates == {u \in DOMAIN service_updates : ~service_updates[u].ok}

\* C20 - Persistence failure is recovered per group: when an update call
\* fails, the relocation is reported as attempted but failed, every
\* relocation applied earlier in the run is kept, and the remaining groups
\* are still processed.
C20_UpdateFailureRecovered ==
    FailedUpdates # {} =>
        /\ Cardinality({k \in DOMAIN printed : printed[k].msg = "API error"})
               = Cardinality(FailedUpdates)
        /\ \A u \in FailedUpdates :
               \A v \in 1..(u - 1) :
                   service_updates[v].ok =>
                       /\ EntryWithId(service_updates[v].eventId).start
                              = service_updates[v].start
                       /\ \E r \in DOMAIN rescheduled :
                              rescheduled[r].new_start
                                  = service_updates[v].start.wall
        /\ Terminal =>
               Len(resolver_calls) = Cardinality(GroupsWithRealConflicts)

\* the step at which an update call fails reports it, keeps what was
\* returned and applied so far, and moves on to the next group
C20_FailureStepContinues ==
    [][( /\ Len(service_updates') = Len(service_updates) + 1
         /\ ~service_updates'[Len(service_updates')].ok )
           => ( /\ printed'[Len(printed')].msg = "API error"
                /\ UNCHANGED <<accepted, rescheduled>>
                /\ SubSeq(service_updates', 1, Len(service_updates))
                       = service_updates
                /\ pc' = "loop"
                /\ gi' = gi + 1 )]_vars

\* a failure the claim calls transient: rate limiting, any 5xx, a timeout
TransientFailure(o) ==
    \/ o.kind = "timeout"
    \/ (o.kind = "http" /\ o.status \in {403, 429})
    \/ (o.kind = "http" /\ o.status >= 500 /\ o.status <= 599)

\* number of invocations the claim asks for: up to the first invocation that
\* returns or fails non-transiently, and at most max_retries
ClaimedCalls ==
    LET stops == {k \in 1..max_retries : ~TransientFailure(fn_args[k])}
    IN  IF stops = {} THEN max_retries
        ELSE CHOOSE k \in stops : \A j \in stops : k <= j

\* C21 - api_call_with_retry invokes the call again after every transient
\* failure (rate limiting, any 5xx, timeout) until it succeeds or 3 attempts
\* were made, then raises; a non-transient failure propagates after exactly
\* one attempt; the call is never invoked more than max_retries times and a
\* success returns at once.
C21_RetriesEveryTransientFailure ==
    (pc \in {"returned", "raised"} /\ fn_ret.done) =>
        /\ fn_ret.calls <= max_retries
        /\ fn_ret.calls = ClaimedCalls
        /\ fn_ret.result = "returned" <=> fn_args[ClaimedCalls].kind = "ok"

\* what holds of the wrapper: never more than max_retries invocations, a
\* return ends it at once, and every failure before the last invocation was
\* an HttpError with status 403, 429, 500 or 503
C21_BoundedAttempts ==
    (pc \in {"returned", "raised"} /\ fn_ret.done) =>
        /\ fn_ret.calls <= max_retries
        /\ fn_ret.result = "returned" <=> fn_args[fn_ret.calls].kind = "ok"
        /\ \A k \in 1..(fn_ret.calls - 1) :
               fn_args[k].kind = "http" /\ fn_args[k].status \in {403, 429, 500, 503}

\* the event is on the calendar before the step and not after it
Removed(e) == \A j \in DOMAIN all_events' : all_events'[j].id # e.id

\* the event is an instance of a schedule block: title without the marker,
\* start and end are the block's
IsInstance(e) ==
    e.timed /\ IsOwnBlock(BareTitle(e.summary), EntryStart(e), EntryEnd(e))

\* C22 - Clear mode removes from the calendar, before adding, exactly the
\* events whose (title with the marker stripped, start, end) is the
\* fingerprint of a schedule block, and removes no other event.
C22_ClearRemovesInstances ==
    [][( /\ fn_ret'.done
         /\ fn_ret'.op = "push"
         /\ fn_ret'.clear
         /\ ~fn_ret'.dry
         /\ pc' = "shell" )
           => \A i \in DOMAIN all_events :
                  Removed(all_events[i]) <=> IsInstance(all_events[i])]_vars

\* what holds instead: no step of a push removes any event
C22_NothingIsRemoved ==
    [][\A i \in DOMAIN all_events : ~Removed(all_events[i])]_vars

InstancesOf(k) ==
    { i \in DOMAIN all_events :
        /\ all_events[i].timed
        /\ BareTitle(all_events[i].summary) = schedule[k].title
        /\ EntryStart(all_events[i]) = BlockValue(schedule[k]).start
        /\ EntryEnd(all_events[i]) = BlockValue(schedule[k]).end }

\* C25 - Push is idempotent on the calendar: after any sequence of pushes
\* and mark-done operations each schedule block has at most one calendar
\* event with its title (marker stripped), start and end, also after the
\* instance was marked complete with the title-prefix strategy.
C25_AtMostOneInstance ==
    \A k \in DOMAIN schedule : Cardinality(InstancesOf(k)) <= 1

\* the same statement when no event carries the completion marker
C25_AtMostOneUnmarkedInstance ==
    (\A i \in DOMAIN all_events :
         BareTitle(all_events[i].summary) = all_events[i].summary)
        => \A k \in DOMAIN schedule : Cardinality(InstancesOf(k)) <= 1

\* ------------------------------------------------------------------ C23
\* ends of the obstacles that overlap the candidate s..e by >= 1 minute
AcceptedObstacleEnds(s, e) ==
    { accepted[k][2] : k \in { j \in DOMAIN accepted :
          OverlapMinutes(s, e, accepted[j][1], accepted[j][2]) >= 1 } }

ManualObstacleEnds(s, e) ==
    { EntryEnd(all_events[i]) : i \in { j \in ManualEntries :
          OverlapMinutes(s, e, EntryStart(all_events[j]),
                         EntryEnd(all_events[j])) >= 1 } }

LatestOf(ends) == CHOOSE x \in ends : \A y \in ends : y <= x

\* the starts the claim allows after a blocked candidate: the latest end of
\* all overlapping obstacles, or of the overlapping obstacles of the kind
\* that is looked at first, plus the buffer
ClaimedAdvances(s, e) ==
    LET acc == AcceptedObstacleEnds(s, e)
        man == ManualObstacleEnds(s, e)
    IN  { LatestOf(ends) + buffer :
            ends \in { x \in {acc \cup man, acc, man} : x # {} } }

SearchAdvances == pc = "search" /\ pc' = "search" /\ start' # start

\* C23: a step of the search loop that moves a blocked candidate puts its
\* start at the latest end among the obstacles overlapping the candidate by
\* >= 1 minute plus buffer_minutes, and its end one duration later
C23_AdvancePastLatestObstacle ==
    [][SearchAdvances =>
          /\ start' \in ClaimedAdvances(start, end)
          /\ end' = start' + (end - start)]_vars

\* what holds of every advance: the candidate moves to a later start and
\* keeps its duration
C23_AdvanceKeepsDuration ==
    [][SearchAdvances =>
          /\ start' > start
          /\ end' - start' = end - start]_vars

\* ------------------------------------------------------------------ C24
\* the token of the request equals the configured WEBHOOK_TOKEN (an absent
\* header and an unset variable both read as the empty text)
TokenMatches(entry) ==
    (IF entry.request.token = {} THEN {""} ELSE entry.request.token)
        = (IF fn_args.WEBHOOK_TOKEN = {} THEN {""} ELSE fn_args.WEBHOOK_TOKEN)

StateIs(entry, text) == entry.request.state = {text}

\* C24: over any sequence of POST requests the sync is launched only for a
\* request with the configured token and the resource state 'exists'; a
\* request with another token gets 401 and has no other effect; a request
\* with the token and a state other than 'exists' gets 200 and runs no sync
C24_WebhookGate ==
    pc = "serving" =>
      \A k \in DOMAIN fn_ret :
        /\ fn_ret[k].launched => TokenMatches(fn_ret[k]) /\ StateIs(fn_ret[k], "exists")
        /\ ~TokenMatches(fn_ret[k]) =>
              /\ fn_ret[k].status = 401
              /\ ~fn_ret[k].launched /\ ~fn_ret[k].wrote
        /\ (TokenMatches(fn_ret[k]) /\ ~StateIs(fn_ret[k], "exists")) =>
              fn_ret[k].status = 200 /\ ~fn_ret[k].launched

\* the part that holds: no request without the token or with another state
\* launches the sync or writes a file
C24_SyncOnlyWhenAuthorised ==
    pc = "serving" =>
      \A k \in DOMAIN fn_ret :
        (fn_ret[k].launched \/ fn_ret[k].wrote)
            => TokenMatches(fn_ret[k]) /\ StateIs(fn_ret[k], "exists")

\* the whole gate holds of the requests whose Content-Length is absent or
\* a run of digits
C24_GateForNumericLength ==
    pc = "serving" =>
      \A k \in DOMAIN fn_ret :
        (fn_ret[k].request.content_length \subseteq {<<"1", "2">>}) =>
          /\ fn_ret[k].launched
                => TokenMatches(fn_ret[k]) /\ StateIs(fn_ret[k], "exists")
          /\ ~TokenMatches(fn_ret[k]) =>
                /\ fn_ret[k].status = 401
                /\ ~fn_ret[k].launched /\ ~fn_ret[k].wrote
          /\ (TokenMatches(fn_ret[k]) /\ ~StateIs(fn_ret[k], "exists")) =>
                fn_ret[k].status = 200 /\ ~fn_ret[k].launched

====
